---- MODULE Spec2Model ----
(***************************************************************************)
(* Generation-to-playback pipeline of pod-gen: the request orchestration   *)
(* of services/geminiService.ts (retry, timeout, error classification,     *)
(* provider routing) driven by handleGenerate of the App component.        *)
(*                                                                         *)
(* Time is kept as the remaining delay of every timer and provider call in *)
(* flight (a discrete-event clock): Tick lets the smallest remaining delay *)
(* elapse.  A timer or call whose race is already decided is abandoned: it *)
(* stays in flight and may settle at any later step.                       *)
(* The player of the App component (togglePlayback, playFrom, handleSeek,  *)
(* the ended event of a source, the progress loop) runs on the audio       *)
(* clock, in units of 100 ms.  A handler is taken together with the render *)
(* and the effects that follow it.                                         *)
(* Spec is the generation pipeline with the service in full; Player is the *)
(* player together with runs whose service calls just return or throw;     *)
(* Playback is the player alone once a buffer is loaded.  Request adds    *)
(* the configuration panel, Session the topic field, Replacement later     *)
(* runs that return another script and recording, and Encoding is the      *)
(* export of a decoded buffer.                                             *)
(* Strings are TLA+ strings and the string functions of the code           *)
(* (toLowerCase, includes, startsWith, trim) are computed on characters.   *)
(***************************************************************************)
EXTENDS Integers, Sequences, FiniteSets, TLC

VARIABLES
    env,             \* process.env: which credentials are configured
    config,          \* App state `config` (topic, scriptModel)
    status,          \* App state `status` (GenerationStatus)
    error,           \* App state `error` (NULL or a message)
    generatedScript, \* App state `generatedScript`
    audioBuffer,     \* App state `audioBuffer` (NULL or the decoded payload)
    isPlaying,       \* App state `isPlaying`
    sourceNode,      \* sourceNodeRef.current (NoSource or the node last created)
    currentTime,     \* App state `currentTime`, the reported position
    duration,        \* App state `duration`
    startTime,       \* startTimeRef.current, the anchor of the running playback
    pauseTime,       \* pauseTimeRef.current, the offset the next play starts from
    clock,           \* audioContextRef.current.currentTime
    sources,         \* buffer sources that play or whose ended event is pending
    frame,           \* a requestAnimationFrame callback of renderLoop is scheduled
    op,              \* the withRetry activation of the current run
    inflight,        \* provider calls, timeout timers and sleeps in flight
    races,           \* the Promise.race of withTimeout that is still pending
    log,             \* attempts of the current operation, in order
    delays,          \* sleep() durations of the current operation, in order
    download         \* the bytes of the file last offered for download

vars == <<env, config, status, error, generatedScript, audioBuffer, isPlaying,
          sourceNode, currentTime, duration, startTime, pauseTime, clock,
          sources, frame, op, inflight, races, log, delays, download>>

\* the state of the player that generation leaves alone
player == <<currentTime, duration, startTime, pauseTime, clock, sources>>

NULL == "<null>"

-----------------------------------------------------------------------------
(* Bounds of the model *)

FastMs == 400         \* latency of a provider call that answers promptly
SlowMs == 61000       \* latency of a provider call that answers after the timeout

-----------------------------------------------------------------------------
(* Configuration constants, geminiService.ts:8-10 *)

MAX_RETRIES == 3
INITIAL_DELAY_MS == 1000
REQUEST_TIMEOUT_MS == 60000

-----------------------------------------------------------------------------
(* String functions of the JavaScript runtime, computed on characters *)

charAt(s, i) == SubSeq(s, i, i)

lowerChar(c) ==
    CASE c = "A" -> "a" [] c = "B" -> "b" [] c = "C" -> "c" [] c = "D" -> "d"
      [] c = "E" -> "e" [] c = "F" -> "f" [] c = "G" -> "g" [] c = "H" -> "h"
      [] c = "I" -> "i" [] c = "J" -> "j" [] c = "K" -> "k" [] c = "L" -> "l"
      [] c = "M" -> "m" [] c = "N" -> "n" [] c = "O" -> "o" [] c = "P" -> "p"
      [] c = "Q" -> "q" [] c = "R" -> "r" [] c = "S" -> "s" [] c = "T" -> "t"
      [] c = "U" -> "u" [] c = "V" -> "v" [] c = "W" -> "w" [] c = "X" -> "x"
      [] c = "Y" -> "y" [] c = "Z" -> "z" [] OTHER -> c

RECURSIVE lowerFrom(_, _)
lowerFrom(s, i) ==
    IF i > Len(s) THEN "" ELSE lowerChar(charAt(s, i)) \o lowerFrom(s, i + 1)

toLowerCase(s) == lowerFrom(s, 1)

includes(s, needle) ==
    \E i \in 1..(Len(s) - Len(needle) + 1) : SubSeq(s, i, i + Len(needle) - 1) = needle

startsWith(s, prefix) ==
    Len(s) >= Len(prefix) /\ SubSeq(s, 1, Len(prefix)) = prefix

isSpace(c) == c = " "

RECURSIVE trimStart(_)
trimStart(s) ==
    IF Len(s) > 0 /\ isSpace(charAt(s, 1)) THEN trimStart(SubSeq(s, 2, Len(s))) ELSE s

RECURSIVE trimEnd(_)
trimEnd(s) ==
    IF Len(s) > 0 /\ isSpace(charAt(s, Len(s))) THEN trimEnd(SubSeq(s, 1, Len(s) - 1)) ELSE s

\* a trim that removes nothing
trimNothing(s) == s

trim(s) == trimEnd(trimStart(s))

\* `!text || text.trim() === ''` : undefined, empty or whitespace-only
isBlank(text) == text = NULL \/ text = "" \/ trim(text) = ""

-----------------------------------------------------------------------------
(* Optional properties of JavaScript objects: a record may lack the field *)

Has(obj, field) == field \in DOMAIN obj

\* new Error(message): an Error carries a message and neither status nor code
Error(message) == [message |-> message]

-----------------------------------------------------------------------------
(* isRetryableError, geminiService.ts:77-102 *)

RetryableStatuses == {429, 500, 502, 503, 504}

\* `err?.status || err?.code`, as the set of values it can be compared with
errStatus(err) ==
    IF Has(err, "status") /\ err.status # 0 THEN {err.status}
    ELSE IF Has(err, "code") THEN {err.code}
    ELSE {}

errMessageLower(err) ==
    IF Has(err, "message") /\ err.message # "" THEN toLowerCase(err.message) ELSE ""

isRetryableError(err) ==
    LET message == errMessageLower(err)
    IN  \/ errStatus(err) \cap RetryableStatuses # {}
        \/ includes(message, "timeout") \/ includes(message, "timed out")
        \/ includes(message, "network") \/ includes(message, "fetch failed")
        \/ includes(message, "econnreset")
        \/ includes(message, "no audio data")

-----------------------------------------------------------------------------
(* extractErrorDetails, geminiService.ts:107-134 *)

\* response?.candidates?.[0], as a sequence holding it when it exists
firstCandidate(response) ==
    IF Has(response, "candidates") /\ Len(response.candidates) > 0
    THEN <<response.candidates[1]>> ELSE <<>>

finishReasonIs(response, reason) ==
    \E i \in DOMAIN firstCandidate(response) :
        /\ Has(firstCandidate(response)[i], "finishReason")
        /\ firstCandidate(response)[i].finishReason = reason

RECURSIVE joinFrom(_, _, _)
joinFrom(strs, i, sep) ==
    IF i > Len(strs) THEN ""
    ELSE IF i = Len(strs) THEN strs[i]
    ELSE strs[i] \o sep \o joinFrom(strs, i + 1, sep)

join(strs, sep) == joinFrom(strs, 1, sep)

\* safetyRatings.filter(r => r.blocked).map(r => r.category)
RECURSIVE blockedCategoriesFrom(_, _)
blockedCategoriesFrom(ratings, i) ==
    IF i > Len(ratings) THEN <<>>
    ELSE IF Has(ratings[i], "blocked") /\ ratings[i].blocked
         THEN <<ratings[i].category>> \o blockedCategoriesFrom(ratings, i + 1)
         ELSE blockedCategoriesFrom(ratings, i + 1)

safetyMessage(candidate) ==
    LET safetyRatings == IF Has(candidate, "safetyRatings") THEN candidate.safetyRatings ELSE <<>>
        blockedCategories == join(blockedCategoriesFrom(safetyRatings, 1), ", ")
    IN  "Content blocked by safety filters: "
            \o (IF blockedCategories # "" THEN blockedCategories ELSE "unspecified category")

\* the block signals are not looked at: the generic message is returned
extractErrorDetailsFallbackOnly(response, fallback) == fallback

extractErrorDetails(response, fallback) ==
    IF finishReasonIs(response, "SAFETY") THEN safetyMessage(response.candidates[1])
    ELSE IF finishReasonIs(response, "RECITATION")
        THEN "Content blocked: detected potential copyrighted material"
    ELSE IF finishReasonIs(response, "OTHER")
        THEN "Generation stopped unexpectedly. Try a different topic or shorter length."
    ELSE IF /\ Has(response, "promptFeedback")
            /\ Has(response.promptFeedback, "blockReason")
            /\ response.promptFeedback.blockReason # ""
        THEN "Prompt blocked: " \o response.promptFeedback.blockReason
    ELSE fallback

-----------------------------------------------------------------------------
(* What the providers can answer.  A settlement is how a remote call ends: *)
(* it resolves with a response or rejects with an error.                   *)

Resolve(response) == [kind |-> "resolve", response |-> response]
Reject(err) == [kind |-> "reject", err |-> err]

EmptyObject == <<>>

\* Errors of the SDK carry the HTTP status; network failures carry none.
ApiError(httpStatus) ==
    [status |-> httpStatus, message |-> "ApiError: got status " \o ToString(httpStatus)]

\* the statuses the providers are made to answer here: two of the retryable
\* ones and one that is not
HttpStatuses == {429, 503, 400}

NetworkErrors ==
    { Error("Failed to fetch"),
      Error("NetworkError when attempting to fetch resource.") }

StopCandidate == [finishReason |-> "STOP"]

SafetyCandidate ==
    [finishReason |-> "SAFETY",
     safetyRatings |-> << [category |-> "HARM_CATEGORY_HARASSMENT", blocked |-> TRUE],
                          [category |-> "HARM_CATEGORY_HATE_SPEECH", blocked |-> FALSE],
                          [category |-> "HARM_CATEGORY_DANGEROUS_CONTENT", blocked |-> TRUE] >>]

\* Responses that report blocked or stopped generation; they carry no payload.
BlockedResponses ==
    { [candidates |-> <<SafetyCandidate>>],
      [candidates |-> <<[finishReason |-> "SAFETY"]>>],
      [candidates |-> <<[finishReason |-> "RECITATION"]>>],
      [candidates |-> <<[finishReason |-> "OTHER"]>>],
      [candidates |-> <<>>, promptFeedback |-> [blockReason |-> "PROHIBITED_CONTENT"]] }

ScriptText == "Alpha: [sighs] fine."

\* ai.models.generateContent for the script
GeminiScriptResponses ==
    { [text |-> ScriptText, candidates |-> <<StopCandidate>>],
      [text |-> "  ", candidates |-> <<StopCandidate>>],
      [candidates |-> <<StopCandidate>>] }
    \cup BlockedResponses

AudioPayload == "UklGRiQAAABXQVZF"

\* the same payload cut short by one byte
TruncatedPayload == "UklGRiQAAABXQVY="

AudioPayloads == {AudioPayload, TruncatedPayload}

\* the payload of a shorter recording
ShorterPayload == "UklGRiQA"

\* ai.models.generateContent for the speech synthesis
TtsResponses ==
    { [candidates |-> <<[finishReason |-> "STOP", inlineData |-> payload]>>] :
        payload \in AudioPayloads }
    \cup { [candidates |-> <<StopCandidate>>], EmptyObject }
    \cup BlockedResponses

GeminiRejections == {ApiError(s) : s \in HttpStatuses} \cup NetworkErrors

GeminiScriptSettlements ==
    {Resolve(r) : r \in GeminiScriptResponses} \cup {Reject(e) : e \in GeminiRejections}

TtsSettlements ==
    {Resolve(r) : r \in TtsResponses} \cup {Reject(e) : e \in GeminiRejections}

\* fetch() of the chat-completion endpoint: response.ok, response.status and
\* the parsed body (EmptyObject when the body is not JSON)
HttpResponse(httpStatus, data) ==
    [ok |-> (httpStatus >= 200 /\ httpStatus <= 299), status |-> httpStatus, data |-> data]

OpenRouterResponses ==
    { HttpResponse(200, [content |-> ScriptText]),
      HttpResponse(200, [content |-> "  "]),
      HttpResponse(200, EmptyObject),
      HttpResponse(429, [errorMessage |-> "Rate limit exceeded: free-models-per-min"]) }
    \cup {HttpResponse(s, EmptyObject) : s \in HttpStatuses}

OpenRouterSettlements ==
    {Resolve(r) : r \in OpenRouterResponses} \cup {Reject(e) : e \in NetworkErrors}

Latencies == {FastMs, SlowMs}

-----------------------------------------------------------------------------
(* The outcome of one attempt: a value returned or an error thrown *)

Returned(value) == [ok |-> TRUE, value |-> value]
Thrown(err) == [ok |-> FALSE, err |-> err]

\* the credential is not checked
getClientUnchecked(environment) == Returned("client")

\* getClient, geminiService.ts:16-22
getClient(environment) ==
    IF ~environment.API_KEY
    THEN Thrown(Error("GEMINI_API_KEY is not configured. Please set it in your .env file."))
    ELSE Returned("client")

\* the rejection of the timer of withTimeout, geminiService.ts:35-37
timeoutError(ms, operation) ==
    Error(operation \o " timed out after " \o ToString(ms \div 1000) \o "s")

\* the blank check without its trim: `if (!text)`
generateScriptViaGeminiResultUntrimmed(settlement) ==
    IF settlement.kind = "reject" THEN Thrown(settlement.err)
    ELSE LET response == settlement.response
             text == IF Has(response, "text") THEN response.text ELSE NULL
         IN  IF text = NULL \/ text = ""
             THEN Thrown(Error(extractErrorDetails(response, "No script text returned from Gemini.")))
             ELSE Returned(text)

\* generateScriptViaGemini after the awaited call, geminiService.ts:253-259
generateScriptViaGeminiResult(settlement) ==
    IF settlement.kind = "reject" THEN Thrown(settlement.err)
    ELSE LET response == settlement.response
             text == IF Has(response, "text") THEN response.text ELSE NULL
         IN  IF isBlank(text)
             THEN Thrown(Error(extractErrorDetails(response, "No script text returned from Gemini.")))
             ELSE Returned(text)

\* the `||` chain of generateScriptViaOpenRouter, geminiService.ts:217-222
openRouterErrorMessage(response) ==
    LET data == response.data
    IN  IF Has(data, "errorMessage") /\ data.errorMessage # "" THEN data.errorMessage
        ELSE IF Has(data, "errorRaw") /\ data.errorRaw # "" THEN data.errorRaw
        ELSE IF Has(data, "message") /\ data.message # "" THEN data.message
        ELSE IF Has(data, "errorJson") /\ data.errorJson # "" THEN data.errorJson
        ELSE "OpenRouter API error: " \o ToString(response.status)

\* generateScriptViaOpenRouter after the awaited fetch, geminiService.ts:213-235
generateScriptViaOpenRouterResult(settlement) ==
    IF settlement.kind = "reject" THEN Thrown(settlement.err)
    ELSE LET response == settlement.response
             text == IF Has(response.data, "content") THEN response.data.content ELSE NULL
         IN  IF ~response.ok
             THEN Thrown(Error("Grok error: " \o openRouterErrorMessage(response)))
             ELSE IF isBlank(text)
             THEN Thrown(Error("No script text returned from Grok. The model may be overloaded."))
             ELSE Returned(text)

\* generatePodcastAudio after the awaited call, geminiService.ts:326-335
generatePodcastAudioResult(settlement) ==
    IF settlement.kind = "reject" THEN Thrown(settlement.err)
    ELSE LET response == settlement.response
             candidate == firstCandidate(response)
             base64Audio == IF Len(candidate) > 0 /\ Has(candidate[1], "inlineData")
                            THEN candidate[1].inlineData ELSE ""
         IN  IF base64Audio = ""
             THEN Thrown(Error(extractErrorDetails(response,
                    "No audio data returned from Gemini. The TTS model may be temporarily unavailable.")))
             ELSE Returned(base64Audio)

\* generatePodcastScript's routing, geminiService.ts:271
usesOpenRouter(scriptModel) == startsWith(scriptModel, "x-ai/")


-----------------------------------------------------------------------------
(* utils/audioUtils: the decoder of the returned payload *)

Base64Alphabet == "ABCDEFGHIJKLMNOPQRSTUVWXYZabcdefghijklmnopqrstuvwxyz0123456789+/"

\* the six bits a base64 character stands for
sextet(c) == (CHOOSE i \in 1..Len(Base64Alphabet) : charAt(Base64Alphabet, i) = c) - 1

\* the payload without its `=` padding
RECURSIVE unpadded(_)
unpadded(text) ==
    IF Len(text) > 0 /\ charAt(text, Len(text)) = "="
    THEN unpadded(SubSeq(text, 1, Len(text) - 1))
    ELSE text

\* decodeBase64: the bytes the text encodes, six bits a character
decodeBase64(text) ==
    LET chars == unpadded(text)
        byte(k) ==
            LET j == (8 * k) \div 6
                r == (8 * k) % 6
                twelve == sextet(charAt(chars, j + 1)) * 64 + sextet(charAt(chars, j + 2))
            IN  (twelve \div 2 ^ (4 - r)) % 256
    IN  [k \in 1..((Len(chars) * 6) \div 8) |-> byte(k - 1)]

\* a 16-bit little-endian signed sample
int16(lo, hi) == IF lo + 256 * hi >= 32768 THEN lo + 256 * hi - 65536 ELSE lo + 256 * hi

\* the error of a payload that does not decode
DecodeError == Error("Audio payload is truncated: byte length is not a multiple of 2.")

\* decodeAudioData: 16-bit little-endian signed PCM, mono, 24000 Hz; the
\* samples are kept as the numerators of sample / 32768, a sequence for
\* each channel
decodeAudioData(bytes) ==
    IF Len(bytes) % 2 # 0
    THEN Thrown(DecodeError)
    ELSE Returned([sampleRate |-> 24000,
                   numberOfChannels |-> 1,
                   channelData |-> <<[i \in 1..(Len(bytes) \div 2) |->
                                        int16(bytes[2 * i - 1], bytes[2 * i])]>>])

-----------------------------------------------------------------------------
(* audioBufferToWav of utils/audioUtils: the container of 16-bit PCM *)

\* little-endian unsigned integers of 16 and 32 bits
uint16(x) == <<x % 256, (x \div 256) % 256>>
uint32(x) == <<x % 256, (x \div 256) % 256, (x \div 65536) % 256, (x \div 16777216) % 256>>

\* a sample (numerator of sample / 32768) clamped to [-1.0, 1.0]
clamp(sample) ==
    IF sample < -32768 THEN -32768 ELSE IF sample > 32768 THEN 32768 ELSE sample

\* the clamped sample scaled by 32767 and cut to an integer
scaled(sample) ==
    LET product == clamp(sample) * 32767
    IN  IF product >= 0 THEN product \div 32768 ELSE -((-product) \div 32768)

\* setInt16(offset, value, true): two's complement, little-endian
int16Bytes(value) == uint16((value + 65536) % 65536)

\* an encoder that writes the first channel only
channelBytesFirstOnly(buffer, i, channel) ==
    IF channel > 1 THEN <<>> ELSE int16Bytes(scaled(buffer.channelData[channel][i]))

\* the bytes of sample i of a channel
channelBytes(buffer, i, channel) == int16Bytes(scaled(buffer.channelData[channel][i]))

\* the bytes of frame i from `channel` on: the channels interleaved
RECURSIVE frameBytes(_, _, _)
frameBytes(buffer, i, channel) ==
    IF channel > buffer.numberOfChannels THEN <<>>
    ELSE channelBytes(buffer, i, channel) \o frameBytes(buffer, i, channel + 1)

\* the sample data from frame i on
RECURSIVE sampleData(_, _)
sampleData(buffer, i) ==
    IF i > Len(buffer.channelData[1]) THEN <<>>
    ELSE frameBytes(buffer, i, 1) \o sampleData(buffer, i + 1)

\* the 44-byte header; its tags are written as the bytes of their characters
wavHeader(buffer) ==
    LET channels == buffer.numberOfChannels
        dataSize == Len(buffer.channelData[1]) * channels * 2
        RIFF == <<82, 73, 70, 70>>
        WAVE == <<87, 65, 86, 69>>
        fmtChunk == <<102, 109, 116, 32>>
        dataChunk == <<100, 97, 116, 97>>
    IN  RIFF \o uint32(36 + dataSize) \o WAVE
        \o fmtChunk \o uint32(16) \o uint16(1) \o uint16(channels)
        \o uint32(buffer.sampleRate) \o uint32(buffer.sampleRate * channels * 2)
        \o uint16(channels * 2) \o uint16(16)
        \o dataChunk \o uint32(dataSize)

audioBufferToWav(buffer) == wavHeader(buffer) \o sampleData(buffer, 1)

-----------------------------------------------------------------------------
(* The requests sent to the providers *)

\* config.speakers.map(s => `${s.name}`)
speakerNames(speakers) == [i \in 1..Len(speakers) |-> speakers[i].name]

\* config.speakers.map(s => `"${s.name}"`)
quotedNames(speakers) == [i \in 1..Len(speakers) |-> "\"" \o speakers[i].name \o "\""]

\* `config.length === 'long' ? 30 : config.length === 'medium' ? 16 : 8`
maxTurns(length) == IF length = "long" THEN 30 ELSE IF length = "medium" THEN 16 ELSE 8

\* buildScriptPrompt: the values the template interpolates
buildScriptPrompt(cfg) ==
    [topic |-> cfg.topic,
     speakerCount |-> Len(cfg.speakers),
     speakerDefinitions |-> join(speakerNames(cfg.speakers), ", "),
     speakerNames |-> join(quotedNames(cfg.speakers), " and "),
     maxTurns |-> maxTurns(cfg.length)]

\* generatePodcastScript: model and prompt, as both back ends are given them
scriptRequest(cfg) == [model |-> cfg.scriptModel, contents |-> buildScriptPrompt(cfg)]

\* one entry of speakerVoiceConfigs
speakerVoiceConfig(s) ==
    [speaker |-> s.name,
     voiceConfig |-> [prebuiltVoiceConfig |-> [voiceName |-> s.voiceName]]]

\* a speechConfig that gives every request the first speaker's voice
speechConfigSingleOnly(cfg) ==
    [voiceConfig |-> [prebuiltVoiceConfig |-> [voiceName |-> cfg.speakers[1].voiceName]]]

\* the speechConfig of generatePodcastAudio
speechConfig(cfg) ==
    IF Len(cfg.speakers) > 1
    THEN [multiSpeakerVoiceConfig |->
            [speakerVoiceConfigs |->
                [i \in 1..Len(cfg.speakers) |-> speakerVoiceConfig(cfg.speakers[i])]]]
    ELSE [voiceConfig |-> [prebuiltVoiceConfig |-> [voiceName |-> cfg.speakers[1].voiceName]]]

\* the generateContent request of generatePodcastAudio
speechRequest(script, cfg) ==
    [model |-> cfg.ttsModel,
     contents |-> <<[parts |-> <<[text |-> script]>>]>>,
     config |-> [responseModalities |-> <<"AUDIO">>,
                 speechConfig |-> speechConfig(cfg),
                 temperature |-> cfg.temperature]]

\* the request an operation sends on each of its attempts
requestOf(o) ==
    IF o.kind = "audio" THEN speechRequest(o.script, o.config) ELSE scriptRequest(o.config)

-----------------------------------------------------------------------------
(* withTimeout and withRetry, geminiService.ts:27-72 *)

\* the identity of an abandoned timer or call: no pending race carries it
StaleId == <<"stale", 0>>

\* sleep(ms): a timer that resumes the retry loop
sleep(id, ms) ==
    [id |-> id, kind |-> "sleep", backend |-> "none", raced |-> FALSE,
     latency |-> ms, remaining |-> ms, hangs |-> FALSE]

\* a remote call in flight: it settles after timing.latency, or never
remoteCall(id, backend, timing) ==
    [id |-> id, kind |-> "call", backend |-> backend, raced |-> FALSE,
     latency |-> timing.latency, remaining |-> timing.latency, hangs |-> timing.hangs]

\* withTimeout: Promise.race of the call and a timer that rejects after ms
withTimeout(call, ms) ==
    { [call EXCEPT !.raced = TRUE],
      [id |-> call.id, kind |-> "timer", backend |-> call.backend, raced |-> TRUE,
       latency |-> ms, remaining |-> ms, hangs |-> FALSE] }

\* every settlement is taken as the outcome, also that of a decided race
raceWonAlways(pendingRaces, id) == TRUE

\* Promise.race: a settlement decides the race only while the race is pending
raceWon(pendingRaces, id) == id \in pendingRaces

\* `attempt === maxRetries`
isLastAttempt(attempt, maxRetries) == attempt = maxRetries

\* the delay is not doubled
backoffDelayConstant(attempt) == INITIAL_DELAY_MS

\* `INITIAL_DELAY_MS * Math.pow(2, attempt - 1)`
backoffDelay(attempt) == INITIAL_DELAY_MS * 2 ^ (attempt - 1)

\* the first error caught is kept
lastErrorAfterKeepFirst(previous, err) == IF previous = <<>> THEN <<err>> ELSE previous

\* `lastError = err`: the error withRetry throws is the one caught last
lastErrorAfter(previous, err) == <<err>>

\* what one attempt returns or throws, given how its awaited promise settled
attemptResult(backend, settlement) ==
    CASE backend = "gemini" -> generateScriptViaGeminiResult(settlement)
      [] backend = "openrouter" -> generateScriptViaOpenRouterResult(settlement)
      [] OTHER -> generatePodcastAudioResult(settlement)

-----------------------------------------------------------------------------
(* State *)

GenerationStatus == {"IDLE", "WRITING_SCRIPT", "GENERATING_AUDIO", "COMPLETED", "ERROR"}

ScriptModels == {"gemini-3-pro-preview", "x-ai/grok-4.1-fast"}

Topics == {"   ", "Quantum cats"}

(* The player: Web Audio clock and buffer sources, and the progress loop.   *)
(* Times are in units of 100 ms.                                           *)

TOLERANCE == 2         \* 0.2 s: the window of the completion test of onended
SeekStep == 10         \* 1 s: the default step of the range input that seeks

BufferDuration == 11   \* audioBuffer.duration of a decoded payload: 1.1 s
ShortDuration == 10    \* audioBuffer.duration of the shorter payload: 1.0 s
MaxClock == 12         \* the audio clock is followed up to 1.2 s
LoadedAt == 5          \* the audio clock when the first recording is loaded: 0.5 s

NoSource == <<>>

NoNode == [startedAt |-> 0, offset |-> 0]

Abs(x) == IF x < 0 THEN -x ELSE x

MathMin(a, b) == IF a < b THEN a ELSE b

\* a position taken for the time of the clock
elapsedIgnoringAnchor(now, anchor) == now

\* the reconstructed position, `currentTime - startTimeRef.current`
elapsed(now, anchor) == now - anchor

\* an anchor taken for the time of the clock
anchorIgnoringOffset(now, offset) == now

\* the anchor playFrom sets, `currentTime - offset`
anchorOf(now, offset) == now - offset

\* audioBuffer.duration
bufferDuration(buffer) ==
    IF buffer = NULL THEN 0
    ELSE IF buffer = ShorterPayload THEN ShortDuration
    ELSE BufferDuration

\* createBufferSource() and start(0, offset) at the current time of the
\* clock: the source plays its buffer from offset to the end; started at the
\* end, it has nothing to play and ends at once
start(buffer, offset) ==
    [node |-> [startedAt |-> clock, offset |-> offset],
     buffer |-> buffer,
     duration |-> bufferDuration(buffer),
     state |-> IF offset >= bufferDuration(buffer) THEN "ended" ELSE "playing",
     stoppedBy |-> "none"]

\* a source whose stop() does nothing
stopIgnored(ref, srcs, caller) == srcs

\* sourceNodeRef.current.stop() in `caller`: the node stops playing and its
\* ended event is queued; a node that has ended already is left as it is.
\* Which node it was no longer matters once it is stopped: the ended events
\* of stopped sources are told apart by the caller that stopped them.
stop(ref, srcs, caller) ==
    {IF ref # NoSource /\ s.node = ref[1] /\ s.state = "playing"
     THEN [s EXCEPT !.state = "stopped", !.stoppedBy = caller, !.node = NoNode]
     ELSE s : s \in srcs}

isLive(s) == s.state = "playing"

\* where a source is in its buffer at time `now`
positionOf(s, now) == s.node.offset + (now - s.node.startedAt)

\* a progress loop that does not test the anchor
renderLoopStepAnyAnchor(playing, anchor, dur, published) ==
    IF playing
    THEN [currentTime |-> MathMin(elapsed(clock, anchor), dur), frame |-> TRUE]
    ELSE [currentTime |-> published, frame |-> FALSE]

\* renderLoop, lines 158-165: publish the reconstructed position and ask for
\* the next frame, or do neither
renderLoopStep(playing, anchor, dur, published) ==
    IF playing /\ anchor # 0
    THEN [currentTime |-> MathMin(elapsed(clock, anchor), dur), frame |-> TRUE]
    ELSE [currentTime |-> published, frame |-> FALSE]

\* a progress effect without its cleanup
renderLoopEffectNoCleanup(playing, dur, anchor, published) ==
    IF playing = isPlaying /\ dur = duration
    THEN [currentTime |-> published, frame |-> frame]
    ELSE IF playing THEN renderLoopStep(playing, anchor, dur, published)
         ELSE [currentTime |-> published, frame |-> frame]

\* The progress effect, lines 155-176, at the render that follows a handler
\* which leaves isPlaying = playing, duration = dur, the anchor at `anchor`
\* and the reported position at `published`: when isPlaying or duration
\* changed, the frame of the previous effect is cancelled and, if playing,
\* renderLoop is called.
renderLoopEffect(playing, dur, anchor, published) ==
    IF playing = isPlaying /\ dur = duration
    THEN [currentTime |-> published, frame |-> frame]
    ELSE renderLoopStep(playing, anchor, dur, published)

-----------------------------------------------------------------------------
\* constants, DEFAULT_SPEAKERS
DEFAULT_SPEAKERS ==
    << [id |-> "1", name |-> "Alpha", voiceName |-> "Leda"],
       [id |-> "2", name |-> "Beta", voiceName |-> "Aoede"] >>

\* the configuration the App component starts with; the temperature is in
\* tenths (1.0)
InitialConfig ==
    [topic |-> "", speakerCount |-> 2, speakers |-> DEFAULT_SPEAKERS,
     ttsModel |-> "gemini-2.5-pro-preview-tts", scriptModel |-> "gemini-3-pro-preview",
     temperature |-> 10, length |-> "short"]

Environments == [API_KEY : BOOLEAN, OPENROUTER_API_KEY : BOOLEAN]

Timings ==
    {[latency |-> l, hangs |-> FALSE] : l \in Latencies} \cup {[latency |-> 0, hangs |-> TRUE]}

IdleOp ==
    [kind |-> "none", attempt |-> 0, pc |-> "idle", lastError |-> <<>>,
     result |-> <<>>, config |-> InitialConfig, script |-> "", request |-> <<>>]

\* Macrotasks (user events, timers, settlements) run only between the
\* microtask chains of the retry loop and of handleGenerate.
Quiescent == op.pc \in {"idle", "await", "sleep"}

Init ==
    /\ env \in Environments
    /\ config = InitialConfig
    /\ status = "IDLE"
    /\ error = NULL
    /\ generatedScript = ""
    /\ audioBuffer = NULL
    /\ isPlaying = FALSE
    /\ sourceNode = NoSource
    /\ currentTime = 0
    /\ duration = 0
    /\ startTime = 0
    /\ pauseTime = 0
    /\ clock = 0
    /\ sources = {}
    /\ frame = FALSE
    /\ op = IdleOp
    /\ inflight = {}
    /\ races = {}
    /\ log = <<>>
    /\ delays = <<>>
    /\ download = <<>>

-----------------------------------------------------------------------------
(* Configuration edits, App component lines 309 and 340-360 *)

SetTopic(topic) ==
    /\ Quiescent
    /\ config' = [config EXCEPT !.topic = topic]
    /\ UNCHANGED <<env, download, status, error, generatedScript, audioBuffer, isPlaying,
                   sourceNode, player, frame, op, inflight, races, log, delays>>

SetScriptModel(model) ==
    /\ Quiescent
    /\ config' = [config EXCEPT !.scriptModel = model]
    /\ UNCHANGED <<env, download, status, error, generatedScript, audioBuffer, isPlaying,
                   sourceNode, player, frame, op, inflight, races, log, delays>>

\* the temperature slider, in tenths
Temperatures == {8, 10}

SetTemperature(temperature) ==
    /\ Quiescent
    /\ config' = [config EXCEPT !.temperature = temperature]
    /\ UNCHANGED <<env, download, status, error, generatedScript, audioBuffer, isPlaying,
                   sourceNode, player, frame, op, inflight, races, log, delays>>

\* what can be typed into a speaker card's name field and picked as its voice
SpeakerNames == {"Alpha", "Beta"}

VoiceNames == {"Leda", "Aoede"}

SpeakerUpdates ==
    {[name |-> n] : n \in SpeakerNames} \cup {[voiceName |-> v] : v \in VoiceNames}

\* the ids of the speaker cards that are rendered
speakerIds(speakers) == {speakers[i].id : i \in 1..Len(speakers)}

\* `{ ...s, ...updates }`
spread(s, updates) ==
    [f \in DOMAIN s \cup DOMAIN updates |-> IF f \in DOMAIN updates THEN updates[f] ELSE s[f]]

handleUpdateSpeaker(id, updates) ==
    /\ Quiescent
    /\ config' = [config EXCEPT !.speakers =
                    [i \in 1..Len(@) |-> IF @[i].id = id THEN spread(@[i], updates) ELSE @[i]]]
    /\ UNCHANGED <<env, download, status, error, generatedScript, audioBuffer, isPlaying,
                   sourceNode, player, frame, op, inflight, races, log, delays>>

\* a count change that keeps no speaker when one is asked for
newSpeakersNoneForOne(count, speakers) ==
    IF count = 1 THEN <<>>
    ELSE IF count = 2 /\ Len(speakers) = 1
    THEN Append(speakers, [id |-> "2", name |-> "Beta", voiceName |-> "Aoede"])
    ELSE speakers

\* `newSpeakers` of handleSpeakerCountChange
newSpeakers(count, speakers) ==
    IF count = 1 THEN <<speakers[1]>>
    ELSE IF count = 2 /\ Len(speakers) = 1
    THEN Append(speakers, [id |-> "2", name |-> "Beta", voiceName |-> "Aoede"])
    ELSE speakers

handleSpeakerCountChange(count) ==
    /\ Quiescent
    /\ config' = [config EXCEPT !.speakerCount = count,
                                !.speakers = newSpeakers(count, @)]
    /\ UNCHANGED <<env, download, status, error, generatedScript, audioBuffer, isPlaying,
                   sourceNode, player, frame, op, inflight, races, log, delays>>

-----------------------------------------------------------------------------
(* handleGenerate up to its first await, App component lines 110-124 *)

startOp(kind, cfg) ==
    [kind |-> kind, attempt |-> 1, pc |-> "attempt", lastError |-> <<>>,
     result |-> <<>>, config |-> cfg, script |-> "", request |-> <<>>]

\* a Generate control that is never disabled
generateDisabledNever(s) == FALSE

\* the `disabled` attribute of the Generate control, line 454
generateDisabled(s) == s \in {"WRITING_SCRIPT", "GENERATING_AUDIO"}

handleGenerate ==
    /\ Quiescent
    /\ ~generateDisabled(status)
    /\ IF trim(config.topic) = ""
       THEN /\ error' = "Missing input vector: topic required."
            /\ UNCHANGED <<status, isPlaying, sourceNode, sources, frame,
                           currentTime, op, log, delays>>
       ELSE /\ error' = NULL
            /\ status' = "WRITING_SCRIPT"
            /\ isPlaying' = FALSE
            /\ sources' = stop(sourceNode, sources, "handleGenerate")
            /\ sourceNode' = NoSource
            /\ LET shown == renderLoopEffect(FALSE, duration, startTime, currentTime)
               IN  /\ frame' = shown.frame
                   /\ currentTime' = shown.currentTime
            /\ op' = startOp("script", config)
            /\ log' = <<>>
            /\ delays' = <<>>
    /\ UNCHANGED <<env, download, config, generatedScript, audioBuffer, duration, startTime,
                   pauseTime, clock, inflight, races>>

-----------------------------------------------------------------------------
(* One pass of the retry loop: `return await fn()` and its catch block *)

backendOf(o) ==
    IF o.kind = "audio" THEN "tts"
    ELSE IF usesOpenRouter(o.config.scriptModel) THEN "openrouter"
    ELSE "gemini"

\* the credential check each backend makes before its remote call
credentialCheck(backend, environment) ==
    IF backend = "openrouter"
    THEN IF ~environment.OPENROUTER_API_KEY
         THEN Thrown(Error("OPENROUTER_API_KEY is not configured. Please set it in your environment."))
         ELSE Returned("apiKey")
    ELSE getClient(environment)

\* which calls are wrapped in withTimeout: generateScriptViaGemini's alone
isTimed(backend) == backend = "gemini"

Settlements(backend) ==
    CASE backend = "gemini" -> GeminiScriptSettlements
      [] backend = "openrouter" -> OpenRouterSettlements
      [] OTHER -> TtsSettlements

\* what a call that answers after SlowMs is made to answer: a success or a 503
LateSettlements(backend) ==
    CASE backend = "gemini" ->
            { Resolve([text |-> ScriptText, candidates |-> <<StopCandidate>>]),
              Reject(ApiError(503)) }
      [] backend = "openrouter" ->
            { Resolve(HttpResponse(200, [content |-> ScriptText])),
              Resolve(HttpResponse(503, EmptyObject)) }
      [] OTHER ->
            { Resolve([candidates |-> <<[finishReason |-> "STOP", inlineData |-> AudioPayload]>>]),
              Reject(ApiError(503)) }

\* how an event in flight can settle
settlementsOf(e) ==
    IF e.kind = "timer" THEN {Reject(timeoutError(e.latency, "Script generation"))}
    ELSE IF e.latency = SlowMs THEN LateSettlements(e.backend)
    ELSE Settlements(e.backend)

attemptId == <<op.kind, op.attempt>>

\* the catch block of withRetry, lines 54-68, leaving `inflightBase` in flight
Catch(err, inflightBase) ==
    IF isLastAttempt(op.attempt, MAX_RETRIES) \/ ~isRetryableError(err)
    THEN /\ op' = [op EXCEPT !.pc = "thrown", !.lastError = lastErrorAfter(@, err)]
         /\ inflight' = inflightBase
         /\ delays' = delays
    ELSE /\ op' = [op EXCEPT !.pc = "sleep", !.lastError = lastErrorAfter(@, err)]
         /\ inflight' = inflightBase \cup {sleep(attemptId, backoffDelay(op.attempt))}
         /\ delays' = Append(delays, backoffDelay(op.attempt))

\* What the provider answered, as recorded in the log: whether the response
\* reports blocked or stopped generation, ...
reportsBlock(settlement) ==
    /\ settlement.kind = "resolve"
    /\ \/ \E reason \in {"SAFETY", "RECITATION", "OTHER"} :
            finishReasonIs(settlement.response, reason)
       \/ /\ Has(settlement.response, "promptFeedback")
          /\ Has(settlement.response.promptFeedback, "blockReason")

\* ... whether the call succeeded with an empty or absent payload and no
\* block signal, ...
emptyResult(backend, settlement) ==
    /\ settlement.kind = "resolve"
    /\ ~reportsBlock(settlement)
    /\ LET response == settlement.response
       IN  CASE backend = "gemini" ->
                  ~Has(response, "text") \/ isBlank(response.text)
             [] backend = "openrouter" ->
                  response.ok /\ (~Has(response.data, "content") \/ isBlank(response.data.content))
             [] OTHER ->
                  \A i \in DOMAIN firstCandidate(response) :
                      ~Has(firstCandidate(response)[i], "inlineData")

\* ... and the HTTP status of the provider's failure (0 when it has none)
failureStatus(settlement) ==
    IF settlement.kind = "reject"
    THEN IF Has(settlement.err, "status") THEN settlement.err.status ELSE 0
    ELSE IF Has(settlement.response, "ok") /\ ~settlement.response.ok
         THEN settlement.response.status
         ELSE 0

\* the attempt's entry of the log, once its outcome is known
closeAttempt(e, settlement, result) ==
    IF Len(log) = 0 THEN log
    ELSE [log EXCEPT ![Len(log)] =
            [@ EXCEPT !.settledBy = e.kind,
                      !.result = <<result>>,
                      !.blocked = e.kind = "call" /\ reportsBlock(settlement),
                      !.empty = e.kind = "call" /\ emptyResult(e.backend, settlement),
                      !.httpStatus = IF e.kind = "call" THEN failureStatus(settlement) ELSE 0]]

\* fn() is entered: credential check, then the remote call is issued
Attempt ==
    /\ op.pc = "attempt"
    /\ LET backend == backendOf(op)
           credential == credentialCheck(backend, env)
           entry == [backend |-> backend, remote |-> FALSE, latency |-> 0, hangs |-> FALSE,
                     settledBy |-> "none", result |-> <<>>,
                     blocked |-> FALSE, empty |-> FALSE, httpStatus |-> 0]
       IN  IF ~credential.ok
           THEN /\ log' = Append(log, [entry EXCEPT !.result = <<credential>>])
                /\ Catch(credential.err, inflight)
                /\ races' = races
           ELSE \E timing \in Timings :
                LET call == remoteCall(attemptId, backend, timing)
                IN  /\ inflight' = inflight \cup
                            (IF isTimed(backend)
                             THEN withTimeout(call, REQUEST_TIMEOUT_MS)
                             ELSE {call})
                    /\ races' = IF isTimed(backend) THEN races \cup {attemptId} ELSE races
                    /\ log' = Append(log, [entry EXCEPT !.remote = TRUE,
                                              !.latency = timing.latency,
                                              !.hangs = timing.hangs])
                    /\ op' = [op EXCEPT !.pc = "await", !.request = <<requestOf(op)>>]
                    /\ delays' = delays
    /\ UNCHANGED <<env, download, config, status, error, generatedScript, audioBuffer,
                   isPlaying, sourceNode, player, frame>>

\* the awaited promise settles: the attempt returns or throws
Resume(e, settlement, inflightBase) ==
    LET result == attemptResult(e.backend, settlement)
    IN  /\ log' = closeAttempt(e, settlement, result)
        /\ IF result.ok
           THEN /\ op' = [op EXCEPT !.pc = "returned", !.result = <<result.value>>]
                /\ inflight' = inflightBase
                /\ delays' = delays
           ELSE Catch(result.err, inflightBase)

\* the events left in flight when e settles: the other side of e's race is
\* abandoned (and forgotten if it never settles)
abandon(e) ==
    {IF x.id = e.id THEN [x EXCEPT !.id = StaleId, !.remaining = 0] ELSE x :
        x \in {y \in inflight : y # e /\ ~(y.id = e.id /\ y.hangs)}}

\* a remote call or a timeout timer settles
Settle(e) ==
    /\ Quiescent
    /\ e.kind \in {"call", "timer"}
    /\ ~e.hangs
    /\ e.remaining = 0
    /\ races' = races \ {e.id}
    /\ \E settlement \in settlementsOf(e) :
        IF (IF e.raced THEN raceWon(races, e.id) ELSE TRUE)
        THEN Resume(e, settlement, abandon(e))
        ELSE /\ inflight' = abandon(e)
             /\ UNCHANGED <<op, log, delays>>
    /\ UNCHANGED <<env, download, config, status, error, generatedScript, audioBuffer,
                   isPlaying, sourceNode, player, frame>>

CallSettles == \E e \in inflight : e.kind = "call" /\ Settle(e)

TimerFires == \E e \in inflight : e.kind = "timer" /\ Settle(e)

\* sleep(delay) is over: the loop goes to its next attempt
SleepEnds ==
    /\ Quiescent
    /\ \E e \in inflight :
        /\ e.kind = "sleep"
        /\ e.remaining = 0
        /\ inflight' = inflight \ {e}
        /\ op' = [op EXCEPT !.attempt = @ + 1,
                             !.pc = IF op.attempt + 1 <= MAX_RETRIES THEN "attempt" ELSE "thrown"]
    /\ UNCHANGED <<env, download, config, status, error, generatedScript, audioBuffer,
                   isPlaying, sourceNode, player, frame, races, log, delays>>

\* time passes until the next timer or settlement of the current attempt is due
Tick ==
    /\ Quiescent
    /\ LET live == {e \in inflight : ~e.hangs /\ e.id # StaleId}
       IN  /\ live # {}
           /\ \A e \in live : e.remaining > 0
           /\ \E d \in {e.remaining : e \in live} :
                /\ \A e \in live : d <= e.remaining
                /\ inflight' = {IF e \in live THEN [e EXCEPT !.remaining = @ - d] ELSE e :
                                   e \in inflight}
    /\ UNCHANGED <<env, download, config, status, error, generatedScript, audioBuffer,
                   isPlaying, sourceNode, player, frame, op, races, log, delays>>

-----------------------------------------------------------------------------
(* handleGenerate after its awaits, App component lines 125-142 *)

\* `err.message || "System Failure."`
shownMessage(err) ==
    IF Has(err, "message") /\ err.message # "" THEN err.message ELSE "System Failure."

\* a handler that read the configuration of the latest render
closureConfigLatest(captured, current) == current

\* `config` inside handleGenerate: the configuration of the render in which
\* the handler was created, for both awaits
closureConfig(captured, current) == captured

\* generatePodcastScript returned: the script is kept and the audio requested
ScriptReturned ==
    /\ op.pc = "returned"
    /\ op.kind = "script"
    /\ generatedScript' = op.result[1]
    /\ status' = "GENERATING_AUDIO"
    /\ op' = [startOp("audio", closureConfig(op.config, config)) EXCEPT !.script = op.result[1]]
    /\ log' = <<>>
    /\ delays' = <<>>
    /\ UNCHANGED <<env, download, config, error, audioBuffer, isPlaying, sourceNode,
                   player, frame, inflight, races>>

\* `decodeAudioData(decodeBase64(base64Audio), ...)` of handleGenerate, for
\* each payload the speech provider returns
decode ==
    [payload \in AudioPayloads \cup {ShorterPayload} |-> decodeAudioData(decodeBase64(payload))]

\* a failed decode that clears the stored buffer
bufferAfterDecodeCleared(previous, payload, decoded) ==
    IF decoded.ok THEN payload ELSE NULL

\* setAudioBuffer(buffer) is reached only when decodeAudioData has returned;
\* the stored buffer is identified by the payload it was decoded from
bufferAfterDecode(previous, payload, decoded) ==
    IF decoded.ok THEN payload ELSE previous

\* generatePodcastAudio returned: the payload is decoded and the buffer kept;
\* the effect of lines 146-152 then takes the duration of the new buffer and
\* rewinds.  A decode that throws is caught by handleGenerate's catch block.
AudioReturned ==
    /\ op.pc = "returned"
    /\ op.kind = "audio"
    /\ LET decoded == decode[op.result[1]]
           buffer == bufferAfterDecode(audioBuffer, op.result[1], decoded)
       IN  /\ audioBuffer' = buffer
           /\ IF decoded.ok
              THEN /\ status' = "COMPLETED"
                   /\ duration' = bufferDuration(buffer)
                   /\ pauseTime' = 0
                   /\ LET shown == renderLoopEffect(isPlaying, bufferDuration(buffer), startTime, 0)
                      IN  /\ frame' = shown.frame
                          /\ currentTime' = shown.currentTime
                   /\ error' = error
              ELSE /\ status' = "ERROR"
                   /\ error' = shownMessage(decoded.err)
                   /\ UNCHANGED <<duration, pauseTime, frame, currentTime>>
    /\ op' = IdleOp
    /\ UNCHANGED <<env, download, config, generatedScript, isPlaying, sourceNode,
                   startTime, clock, sources, inflight, races, log, delays>>

\* the catch block of handleGenerate
GenerateFailed ==
    /\ op.pc = "thrown"
    /\ error' = shownMessage(op.lastError[1])
    /\ status' = "ERROR"
    /\ op' = IdleOp
    /\ UNCHANGED <<env, download, config, generatedScript, audioBuffer, isPlaying, sourceNode,
                   player, frame, inflight, races, log, delays>>

-----------------------------------------------------------------------------

Next ==
    \/ \E topic \in Topics : SetTopic(topic)
    \/ \E model \in ScriptModels : SetScriptModel(model)
    \/ handleGenerate
    \/ Attempt
    \/ CallSettles
    \/ TimerFires
    \/ SleepEnds
    \/ Tick
    \/ ScriptReturned
    \/ AudioReturned
    \/ GenerateFailed

Spec == Init /\ [][Next]_vars

-----------------------------------------------------------------------------
(* The player's handlers, App component lines 178-239 *)

\* what playFrom and the handlers around it leave alone
generation == <<env, download, config, status, error, generatedScript, audioBuffer, duration,
                op, inflight, races, log, delays>>

\* playFrom(offset), called by a handler that leaves the reported position
\* at `published`
playFrom(offset, published) ==
    IF audioBuffer = NULL
    THEN /\ currentTime' = published
         /\ UNCHANGED <<sources, sourceNode, startTime, isPlaying, frame>>
    ELSE LET source == start(audioBuffer, offset)
             anchor == anchorOf(clock, offset)
             shown == renderLoopEffect(TRUE, duration, anchor, published)
         IN  /\ sources' = stop(sourceNode, sources, "playFrom") \cup {source}
             /\ sourceNode' = <<source.node>>
             /\ startTime' = anchor
             /\ isPlaying' = TRUE
             /\ frame' = shown.frame
             /\ currentTime' = shown.currentTime

togglePlayback ==
    /\ Quiescent
    /\ audioBuffer # NULL
    /\ IF isPlaying
       THEN /\ sources' = stop(sourceNode, sources, "togglePlayback")
            /\ sourceNode' = NoSource
            /\ pauseTime' = elapsed(clock, startTime)
            /\ isPlaying' = FALSE
            /\ LET shown == renderLoopEffect(FALSE, duration, startTime, currentTime)
               IN  /\ frame' = shown.frame
                   /\ currentTime' = shown.currentTime
            /\ startTime' = startTime
       ELSE /\ playFrom(pauseTime, currentTime)
            /\ pauseTime' = pauseTime
    /\ UNCHANGED <<generation, clock>>

\* the values the scrubber can take: min 0, max duration, default step
SeekTargets == {x \in 0..duration : x % SeekStep = 0}

\* a seek that restarts playback whether or not the player is playing
handleSeekAlwaysPlays(newTime) ==
    /\ Quiescent
    /\ audioBuffer # NULL
    /\ pauseTime' = newTime
    /\ playFrom(newTime, newTime)
    /\ UNCHANGED <<generation, clock>>

handleSeek(newTime) ==
    /\ Quiescent
    /\ audioBuffer # NULL
    /\ pauseTime' = newTime
    /\ IF isPlaying
       THEN playFrom(newTime, newTime)
       ELSE /\ currentTime' = newTime
            /\ UNCHANGED <<sources, sourceNode, startTime, isPlaying, frame>>
    /\ UNCHANGED <<generation, clock>>

\* a completion test that never succeeds
endedNaturallyNever(position, length) == FALSE

\* the test of onended, line 223
endedNaturally(position, length) == Abs(position - length) < TOLERANCE

\* source.onended, lines 218-228: the ended event of a source that was
\* stopped or that reached the end of its buffer is dispatched
onended(s) ==
    /\ Quiescent
    /\ ~isLive(s)
    /\ sources' = sources \ {s}
    /\ IF endedNaturally(elapsed(clock, startTime), s.duration)
       THEN /\ isPlaying' = FALSE
            /\ pauseTime' = 0
            /\ LET shown == renderLoopEffect(FALSE, duration, startTime, 0)
               IN  /\ frame' = shown.frame
                   /\ currentTime' = shown.currentTime
       ELSE UNCHANGED <<isPlaying, pauseTime, frame, currentTime>>
    /\ UNCHANGED <<generation, sourceNode, startTime, clock>>

SourceEnded == \E s \in sources : onended(s)

\* the frame callback of the progress loop, lines 158-165
renderLoop ==
    /\ Quiescent
    /\ frame
    /\ LET shown == renderLoopStep(isPlaying, startTime, duration, currentTime)
       IN  /\ frame' = shown.frame
           /\ currentTime' = shown.currentTime
    /\ UNCHANGED <<generation, isPlaying, sourceNode, startTime, pauseTime, clock, sources>>

\* 100 ms pass on the audio clock; a source that reaches the end of its
\* buffer ends.  Ended events are dispatched before time passes.
AudioTick ==
    /\ Quiescent
    /\ clock < MaxClock
    /\ \A s \in sources : isLive(s)
    /\ clock' = clock + 1
    /\ sources' = {IF positionOf(s, clock + 1) >= s.duration
                   THEN [s EXCEPT !.state = "ended"] ELSE s : s \in sources}
    /\ UNCHANGED <<generation, isPlaying, sourceNode, startTime, pauseTime,
                   currentTime, frame>>

-----------------------------------------------------------------------------
(* Export, App component lines 247-264 *)

\* an export whose catch block ends the run as a failed generation does
handleDownloadAsGenerateFailed ==
    /\ Quiescent
    /\ audioBuffer # NULL
    /\ \E threw \in BOOLEAN :
        IF threw
        THEN error' = "Export protocol failed." /\ status' = "ERROR" /\ download' = download
        ELSE /\ download' = audioBufferToWav(decode[audioBuffer].value)
             /\ UNCHANGED <<error, status>>
    /\ UNCHANGED <<env, config, generatedScript, audioBuffer, isPlaying,
                   sourceNode, player, frame, op, inflight, races, log, delays>>

\* handleDownload: the encoder or one of the browser calls in the try block
\* may throw; the catch block shows a message.  Otherwise the encoded buffer
\* is offered for download.
handleDownload ==
    /\ Quiescent
    /\ audioBuffer # NULL
    /\ \E threw \in BOOLEAN :
        IF threw
        THEN error' = "Export protocol failed." /\ status' = status /\ download' = download
        ELSE /\ download' = audioBufferToWav(decode[audioBuffer].value)
             /\ UNCHANGED <<error, status>>
    /\ UNCHANGED <<env, config, generatedScript, audioBuffer, isPlaying,
                   sourceNode, player, frame, op, inflight, races, log, delays>>

-----------------------------------------------------------------------------
(* The player together with generation runs.  The service is seen as the   *)
(* App sees it: a promise that is pending, then returns or throws.         *)

\* withRetry calls fn and awaits it
serviceCalled ==
    /\ op.pc = "attempt"
    /\ op' = [op EXCEPT !.pc = "await", !.request = <<requestOf(op)>>]
    /\ UNCHANGED <<env, download, config, status, error, generatedScript, audioBuffer,
                   isPlaying, sourceNode, player, frame, inflight, races, log, delays>>

\* generatePodcastScript or generatePodcastAudio returns
serviceReturns ==
    /\ op.pc = "await"
    /\ \E payload \in AudioPayloads :
        op' = [op EXCEPT !.pc = "returned",
                         !.result = <<IF op.kind = "script" THEN ScriptText ELSE payload>>]
    /\ UNCHANGED <<env, download, config, status, error, generatedScript, audioBuffer,
                   isPlaying, sourceNode, player, frame, inflight, races, log, delays>>

\* generatePodcastScript or generatePodcastAudio throws
serviceThrows ==
    /\ op.pc = "await"
    /\ op' = [op EXCEPT !.pc = "thrown", !.lastError = <<ApiError(400)>>]
    /\ UNCHANGED <<env, download, config, status, error, generatedScript, audioBuffer,
                   isPlaying, sourceNode, player, frame, inflight, races, log, delays>>

\* the topic is typed and both credentials are configured
InitPlayer ==
    /\ env = [API_KEY |-> TRUE, OPENROUTER_API_KEY |-> TRUE]
    /\ config = [InitialConfig EXCEPT !.topic = "Quantum cats"]
    /\ status = "IDLE"
    /\ error = NULL
    /\ generatedScript = ""
    /\ audioBuffer = NULL
    /\ isPlaying = FALSE
    /\ sourceNode = NoSource
    /\ currentTime = 0
    /\ duration = 0
    /\ startTime = 0
    /\ pauseTime = 0
    /\ clock = 0
    /\ sources = {}
    /\ frame = FALSE
    /\ op = IdleOp
    /\ inflight = {}
    /\ races = {}
    /\ log = <<>>
    /\ delays = <<>>
    /\ download = <<>>

NextPlayer ==
    \/ handleGenerate
    \/ serviceCalled
    \/ serviceReturns
    \/ serviceThrows
    \/ ScriptReturned
    \/ AudioReturned
    \/ GenerateFailed
    \/ togglePlayback
    \/ \E newTime \in SeekTargets : handleSeek(newTime)
    \/ SourceEnded
    \/ renderLoop
    \/ AudioTick

Player == InitPlayer /\ [][NextPlayer]_vars

-----------------------------------------------------------------------------
(* The player and generation runs of a session in which the topic is       *)
(* edited as well.                                                         *)

NextSession ==
    \/ NextPlayer
    \/ \E topic \in Topics : SetTopic(topic)

Session == InitPlayer /\ [][NextSession]_vars



-----------------------------------------------------------------------------
(* The player alone, once a run has completed and its buffer is loaded.    *)
(* The ended event of a source is dispatched once it is queued.            *)

InitPlayback ==
    /\ env = [API_KEY |-> TRUE, OPENROUTER_API_KEY |-> TRUE]
    /\ config = [InitialConfig EXCEPT !.topic = "Quantum cats"]
    /\ status = "COMPLETED"
    /\ error = NULL
    /\ generatedScript = ScriptText
    /\ audioBuffer = AudioPayload
    /\ isPlaying = FALSE
    /\ sourceNode = NoSource
    /\ currentTime = 0
    /\ duration = bufferDuration(AudioPayload)
    /\ startTime = 0
    /\ pauseTime = 0
    /\ clock = 0
    /\ sources = {}
    /\ frame = FALSE
    /\ op = IdleOp
    /\ inflight = {}
    /\ races = {}
    /\ log = <<>>
    /\ delays = <<>>
    /\ download = <<>>

NextPlayback ==
    \/ handleDownload
    \/ togglePlayback
    \/ \E newTime \in SeekTargets : handleSeek(newTime)
    \/ SourceEnded
    \/ renderLoop
    \/ AudioTick

Playback == InitPlayback /\ [][NextPlayback]_vars /\ WF_vars(SourceEnded)

-----------------------------------------------------------------------------
(* The player with the recording of a completed run loaded, and the runs   *)
(* that follow, whose recordings are shorter.                              *)

\* the recording of a completed run is loaded; the audio clock has been
\* running since the page was opened
InitReplacement ==
    /\ env = [API_KEY |-> TRUE, OPENROUTER_API_KEY |-> TRUE]
    /\ config = [InitialConfig EXCEPT !.topic = "Quantum cats"]
    /\ status = "COMPLETED"
    /\ error = NULL
    /\ generatedScript = ScriptText
    /\ audioBuffer = AudioPayload
    /\ isPlaying = FALSE
    /\ sourceNode = NoSource
    /\ currentTime = 0
    /\ duration = bufferDuration(AudioPayload)
    /\ startTime = 0
    /\ pauseTime = 0
    /\ clock = LoadedAt
    /\ sources = {}
    /\ frame = FALSE
    /\ op = IdleOp
    /\ inflight = {}
    /\ races = {}
    /\ log = <<>>
    /\ delays = <<>>
    /\ download = <<>>

\* the script of a later run
LaterScriptText == "Alpha: [laughs] again."

\* generatePodcastScript returns the script of a later run, or
\* generatePodcastAudio returns the payload of a shorter recording
serviceReturnsShorter ==
    /\ op.pc = "await"
    /\ op' = [op EXCEPT !.pc = "returned",
                         !.result = <<IF op.kind = "script" THEN LaterScriptText ELSE ShorterPayload>>]
    /\ UNCHANGED <<env, download, config, status, error, generatedScript, audioBuffer,
                   isPlaying, sourceNode, player, frame, inflight, races, log, delays>>

NextReplacement ==
    \/ handleGenerate
    \/ serviceCalled
    \/ serviceReturnsShorter
    \/ serviceThrows
    \/ ScriptReturned
    \/ AudioReturned
    \/ GenerateFailed
    \/ togglePlayback
    \/ \E newTime \in SeekTargets : handleSeek(newTime)
    \/ SourceEnded
    \/ renderLoop
    \/ AudioTick

Replacement == InitReplacement /\ [][NextReplacement]_vars

-----------------------------------------------------------------------------
(* The encoder alone: a decoded buffer of one or two channels is stored,   *)
(* here as the buffer itself, and exported.                                *)

MaxSamples == 3

\* sample values, as numerators of sample / 32768: one below -1.0, silence
\* and the largest value the decoder produces
SampleValues == {-40000, 0, 32767}

RECURSIVE channelSequences(_)
channelSequences(n) ==
    IF n = 0 THEN {<<>>}
    ELSE {Append(samples, v) : samples \in channelSequences(n - 1), v \in SampleValues}

DecodedBuffers ==
    UNION { UNION { { [sampleRate |-> 24000, numberOfChannels |-> channels,
                       channelData |-> channelData] :
                        channelData \in [1..channels -> channelSequences(n)] } :
                    n \in 0..MaxSamples } :
            channels \in 1..2 }

InitEncoding ==
    /\ env = [API_KEY |-> TRUE, OPENROUTER_API_KEY |-> TRUE]
    /\ config = [InitialConfig EXCEPT !.topic = "Quantum cats"]
    /\ status = "COMPLETED"
    /\ error = NULL
    /\ generatedScript = ScriptText
    /\ audioBuffer \in DecodedBuffers
    /\ isPlaying = FALSE
    /\ sourceNode = NoSource
    /\ currentTime = 0
    /\ duration = 0
    /\ startTime = 0
    /\ pauseTime = 0
    /\ clock = 0
    /\ sources = {}
    /\ frame = FALSE
    /\ op = IdleOp
    /\ inflight = {}
    /\ races = {}
    /\ log = <<>>
    /\ delays = <<>>
    /\ download = <<>>

\* handleDownload when the encoder and the browser calls return
exportBuffer ==
    /\ Quiescent
    /\ download' = audioBufferToWav(audioBuffer)
    /\ UNCHANGED <<env, config, status, error, generatedScript, audioBuffer, isPlaying,
                   sourceNode, player, frame, op, inflight, races, log, delays>>

NextEncoding == exportBuffer

Encoding == InitEncoding /\ [][NextEncoding]_vars

-----------------------------------------------------------------------------
(* The configuration panel together with generation runs: the topic, the   *)
(* models, speakers and temperature are edited at any time, also during a  *)
(* run.                                                                    *)

\* an attempt fails with a retryable error and, the backoff over, withRetry
\* calls fn again
serviceRetries ==
    /\ op.pc = "await"
    /\ ~isLastAttempt(op.attempt, MAX_RETRIES)
    /\ op' = [op EXCEPT !.attempt = @ + 1, !.pc = "attempt"]
    /\ UNCHANGED <<env, download, config, status, error, generatedScript, audioBuffer,
                   isPlaying, sourceNode, player, frame, inflight, races, log, delays>>

InitRequest ==
    /\ Init
    /\ env = [API_KEY |-> TRUE, OPENROUTER_API_KEY |-> TRUE]

NextRequest ==
    \/ \E topic \in Topics : SetTopic(topic)
    \/ \E model \in ScriptModels : SetScriptModel(model)
    \/ \E temperature \in Temperatures : SetTemperature(temperature)
    \/ \E id \in speakerIds(config.speakers), updates \in SpeakerUpdates :
            handleUpdateSpeaker(id, updates)
    \/ \E count \in {1, 2} : handleSpeakerCountChange(count)
    \/ handleGenerate
    \/ serviceCalled
    \/ serviceRetries
    \/ serviceReturns
    \/ serviceThrows
    \/ ScriptReturned
    \/ AudioReturned
    \/ GenerateFailed

Request == InitRequest /\ [][NextRequest]_vars

-----------------------------------------------------------------------------
(* Reading the log of the current operation *)

\* withRetry has returned or thrown: every attempt of the log has its outcome
OpEnded == op.pc \in {"returned", "thrown"}

closed(i) == log[i].result # <<>>

succeeded(i) == closed(i) /\ log[i].result[1].ok

failed(i) == closed(i) /\ ~log[i].result[1].ok

failure(i) == log[i].result[1].err

retryable(i) == failed(i) /\ isRetryableError(failure(i))

\* attempt i was followed by another attempt, or is about to be
retried(i) == i < Len(log) \/ (i = Len(log) /\ op.pc \in {"sleep", "attempt"})

Min(S) == CHOOSE x \in S : \A y \in S : x <= y

RECURSIVE SumFrom(_, _)
SumFrom(seq, i) == IF i > Len(seq) THEN 0 ELSE seq[i] + SumFrom(seq, i + 1)

Sum(seq) == SumFrom(seq, 1)

staleInFlight(kind) == \E e \in inflight : e.id = StaleId /\ e.kind = kind

-----------------------------------------------------------------------------
(* C1: withRetry issues exactly min(k, 3) provider calls, k being the first *)
(* attempt that succeeds or fails with a non-retryable classification (3   *)
(* when there is none); it sleeps 1000 ms after attempt 1 and 2000 ms      *)
(* after attempt 2, and never after the final attempt.                     *)
C1_CallsAndBackoff ==
    /\ Len(log) <= 3
    /\ Len(delays) <= 2
    /\ delays = SubSeq(<<1000, 2000>>, 1, Len(delays))
    /\ op.pc = "sleep" =>
          /\ Len(delays) = Len(log)
          /\ \E e \in inflight : e.kind = "sleep" /\ e.latency = delays[Len(delays)]
    /\ OpEnded /\ (\A i \in 1..Len(log) : log[i].remote) =>
          LET decisive == {i \in 1..Len(log) : succeeded(i) \/ (failed(i) /\ ~retryable(i))}
              k == IF decisive = {} THEN 3 ELSE Min(decisive)
              calls == Cardinality({i \in 1..Len(log) : log[i].remote})
          IN  /\ calls = (IF k < 3 THEN k ELSE 3)
              /\ Len(delays) = calls - 1
              /\ ~\E e \in inflight : e.kind = "sleep"

\* an operation that used all three attempts, with both backoff delays
C1_Witness ==
    /\ OpEnded
    /\ Len(log) = 3
    /\ \A i \in 1..3 : log[i].remote
    /\ delays = <<1000, 2000>>

-----------------------------------------------------------------------------
(* C2: a response that reports blocked or stopped generation (finish       *)
(* reason SAFETY, RECITATION or OTHER, or a prompt block reason) is never  *)
(* classified retryable, also when it lacks the payload: the attempt that  *)
(* received it fails, it is the last attempt of the operation, no backoff  *)
(* follows it, and the run ends in ERROR.                                  *)
C2_BlockedNeverRetried ==
    \A i \in 1..Len(log) :
        log[i].blocked =>
            /\ failed(i)
            /\ ~retryable(i)
            /\ i = Len(log)
            /\ Len(delays) = i - 1
            /\ op.pc \in {"thrown", "idle"}
            /\ op.pc = "idle" => status = "ERROR"

\* a speech-synthesis response blocked on the first attempt: without the
\* block signal its missing payload would be the retryable "no audio data"
C2_Witness ==
    /\ Len(log) = 1
    /\ log[1].blocked
    /\ log[1].backend = "tts"
    /\ status = "ERROR"
    /\ includes(error, "blocked")

-----------------------------------------------------------------------------
(* C3: a call that succeeds with an empty or absent result (blank script   *)
(* text of either script backend, no inline audio payload) and no block    *)
(* signal is classified retryable and retried while attempts remain.       *)
C3_EmptyResultRetried ==
    \A i \in 1..Len(log) :
        log[i].empty => retryable(i) /\ (i < 3 => retried(i))

-----------------------------------------------------------------------------
(* C4: a failure of either script backend with HTTP status 429, 500, 502,  *)
(* 503 or 504 is classified retryable and retried while attempts remain.   *)
C4_StatusRetried ==
    \A i \in 1..Len(log) :
        /\ closed(i)
        /\ log[i].backend \in {"gemini", "openrouter"}
        /\ log[i].httpStatus \in {429, 500, 502, 503, 504}
        => retryable(i) /\ (i < 3 => retried(i))

-----------------------------------------------------------------------------
(* C5: in GenerateScript, for either backend, a call that has not resolved *)
(* within 60 seconds ends its attempt with a timeout failure, which is     *)
(* retryable and leads to the next attempt while attempts remain.          *)
C5_ScriptTimeout ==
    \A i \in 1..Len(log) :
        /\ closed(i)
        /\ log[i].backend \in {"gemini", "openrouter"}
        /\ log[i].remote
        /\ log[i].latency > 60000
        => /\ log[i].settledBy = "timer"
           /\ failed(i)
           /\ includes(failure(i).message, "timed out")
           /\ retryable(i)
           /\ i < 3 => retried(i)

-----------------------------------------------------------------------------
(* C6: GenerateAudio applies the same 60-second timeout: a speech call     *)
(* that has not resolved within 60 seconds ends its attempt with a         *)
(* retryable timeout failure.                                              *)
C6_AudioTimeout ==
    \A i \in 1..Len(log) :
        /\ closed(i)
        /\ log[i].backend = "tts"
        /\ log[i].remote
        /\ log[i].latency > 60000
        => /\ log[i].settledBy = "timer"
           /\ failed(i)
           /\ includes(failure(i).message, "timed out")
           /\ retryable(i)

-----------------------------------------------------------------------------
(* C7: when an operation fails terminally, the failure withRetry throws is *)
(* the one of the last attempt issued; the run then moves to ERROR showing *)
(* exactly that failure's message, and a run whose operation failed is in  *)
(* ERROR.                                                                  *)
C7_LastFailureSurfaced ==
    /\ [](op.pc = "thrown" =>
            /\ Len(log) > 0
            /\ failed(Len(log))
            /\ op.lastError = <<failure(Len(log))>>)
    /\ [][op.pc = "thrown" =>
            /\ status' = "ERROR"
            /\ error' = failure(Len(log)).message]_vars
    /\ [](op.pc = "idle" /\ Len(log) > 0 /\ failed(Len(log)) => status = "ERROR")

\* a run that failed after three attempts whose failures differ: the message
\* shown is the third one's
C7_Witness ==
    /\ status = "ERROR"
    /\ op.pc = "idle"
    /\ Len(log) = 3
    /\ failed(3)
    /\ failure(1).message # failure(3).message
    /\ error = failure(3).message

-----------------------------------------------------------------------------
(* C8: retryable failures followed by a success within the budget (503,    *)
(* 503, success): a 503 with attempts left never ends the operation, and   *)
(* an operation that succeeds on attempt 3 has waited 3000 ms in all,      *)
(* shows no error and is not in ERROR.                                     *)
C8_RetryThenSuccess ==
    /\ op.pc = "thrown" /\ Len(log) < 3 => log[Len(log)].httpStatus # 503
    /\ op.pc = "returned" /\ Len(log) = 3 =>
          /\ Sum(delays) = 3000
          /\ error = NULL
          /\ status # "ERROR"

-----------------------------------------------------------------------------
(* C9: the timeout is a race that the first of {call, timer} to settle     *)
(* decides: a call that answers before the timer decides its attempt, a    *)
(* call that does not is timed out, and a timer or call that settles after *)
(* its race was decided changes neither the operation (its attempts, its   *)
(* result, its delays) nor the state of the run.                           *)
C9_RaceLoserDiscarded ==
    /\ [](\A i \in 1..Len(log) :
            closed(i) /\ log[i].backend = "gemini" /\ log[i].remote =>
                /\ ~log[i].hangs /\ log[i].latency < REQUEST_TIMEOUT_MS
                      => log[i].settledBy = "call"
                /\ log[i].hangs \/ log[i].latency > REQUEST_TIMEOUT_MS
                      => /\ log[i].settledBy = "timer"
                         /\ failed(i)
                         /\ failure(i).message = "Script generation timed out after 60s")
    /\ [][(\E e \in inflight : e.id = StaleId /\ e \notin inflight') =>
            UNCHANGED <<status, error, generatedScript, audioBuffer, isPlaying,
                        sourceNode, op, log, delays>>]_vars

\* attempt 3 is awaited; attempt 1 was decided by its timer and attempt 2 by
\* its call, and the call and the timer they abandoned have settled since
C9_Witness ==
    /\ op.pc = "await"
    /\ Len(log) = 3
    /\ log[1].backend = "gemini"
    /\ log[1].settledBy = "timer" /\ ~log[1].hangs
    /\ log[2].settledBy = "call"
    /\ ~staleInFlight("call")
    /\ ~staleInFlight("timer")

-----------------------------------------------------------------------------
(* C10: when the credential of the selected backend is missing, the        *)
(* operation fails with a configuration error before any remote call is    *)
(* issued; the failure is not retryable (one attempt, no backoff) and the  *)
(* run moves to ERROR.                                                     *)
credentialMissing(backend) ==
    IF backend = "openrouter" THEN ~env.OPENROUTER_API_KEY ELSE ~env.API_KEY

C10_MissingCredential ==
    \A i \in 1..Len(log) :
        credentialMissing(log[i].backend) =>
            /\ ~log[i].remote
            /\ \A e \in inflight : e.id = StaleId
            /\ failed(i)
            /\ includes(failure(i).message, "is not configured")
            /\ ~retryable(i)
            /\ Len(log) = 1
            /\ delays = <<>>
            /\ op.pc \in {"thrown", "idle"}
            /\ op.pc = "idle" => status = "ERROR"

\* the speech credential is missing: the script came from the chat-completion
\* backend and the audio operation failed at once
C10_Witness ==
    /\ status = "ERROR"
    /\ generatedScript # ""
    /\ Len(log) = 1
    /\ log[1].backend = "tts"
    /\ credentialMissing("tts")
    /\ error = "GEMINI_API_KEY is not configured. Please set it in your .env file."

-----------------------------------------------------------------------------
(* C11: GenerationStatus starts at IDLE and changes only along the edges   *)
(* IDLE -> WRITING_SCRIPT, WRITING_SCRIPT -> GENERATING_AUDIO,             *)
(* GENERATING_AUDIO -> COMPLETED, WRITING_SCRIPT -> ERROR,                 *)
(* GENERATING_AUDIO -> ERROR, COMPLETED -> WRITING_SCRIPT and              *)
(* ERROR -> WRITING_SCRIPT.                                                *)
StatusEdges ==
    { <<"IDLE", "WRITING_SCRIPT">>, <<"WRITING_SCRIPT", "GENERATING_AUDIO">>,
      <<"GENERATING_AUDIO", "COMPLETED">>, <<"WRITING_SCRIPT", "ERROR">>,
      <<"GENERATING_AUDIO", "ERROR">>, <<"COMPLETED", "WRITING_SCRIPT">>,
      <<"ERROR", "WRITING_SCRIPT">> }

C11_StatusEdges ==
    /\ status = "IDLE"
    /\ [][status' # status => <<status, status'>> \in StatusEdges]_vars

\* a run that failed while synthesising audio, started after one that completed
C11_Witness ==
    /\ status = "ERROR"
    /\ audioBuffer # NULL
    /\ Len(log) > 0
    /\ log[1].backend = "tts"

-----------------------------------------------------------------------------
(* C12: at most one source is started and not stopped, whatever play,      *)
(* pause, seek, start of run and ended events have occurred: the source    *)
(* that plays is the one sourceNodeRef holds, and a step that starts a     *)
(* source leaves no source that played before it playing.                  *)
liveSources == {s \in sources : isLive(s)}

C12_OneLiveSource ==
    /\ [](Cardinality(liveSources) <= 1)
    /\ [](\A s \in liveSources : sourceNode = <<s.node>>)
    /\ [][\A s \in liveSources : s \in sources' /\ sourceNode' # sourceNode => sourceNode' = NoSource]_vars

\* a seek while playing: the new source plays and the ended event of the one
\* it replaced is still to come
C12_Witness ==
    /\ isPlaying
    /\ \E s \in sources : isLive(s) /\ s.node.offset = SeekStep
    /\ \E s \in sources : s.state = "stopped"

-----------------------------------------------------------------------------
(* C13: the ended event of a source that was stopped by the                *)
(* stop-and-restart of a seek never makes the player declare completion:   *)
(* its dispatch leaves the playing flag, the paused offset and the         *)
(* reported position as they are, whatever the target of the seek.         *)
endedEventOf(s) == s \in sources /\ ~isLive(s) /\ s \notin sources'

C13_SeekStopNeverCompletes ==
    [][\A s \in sources :
          endedEventOf(s) /\ s.state = "stopped" /\ s.stoppedBy = "playFrom" =>
              /\ isPlaying' = isPlaying
              /\ pauseTime' = pauseTime
              /\ currentTime' = currentTime]_vars

-----------------------------------------------------------------------------
(* C14: when a playing source reaches the end of its buffer, its ended     *)
(* event is eventually dispatched, and unless the player was paused,       *)
(* sought or restarted in between, the dispatch declares completion: the   *)
(* playing flag is cleared and the paused offset and reported position are *)
(* zero, so that the next play starts from the beginning.                  *)
\* the source the player holds has reached the end of its buffer while
\* playing, and its ended event is still to be dispatched
endPending ==
    /\ isPlaying
    /\ \E s \in sources : s.state = "ended" /\ sourceNode = <<s.node>>

-----------------------------------------------------------------------------
(* C15: a pause that follows PlayFrom(o) after t of clock time, with no    *)
(* operation in between, records pausedOffset = o + t and stops the active *)
(* source; the offset is in place when the playing flag is cleared.        *)
\* the step is the pause branch of togglePlayback
pauses == isPlaying /\ sourceNode # NoSource /\ sourceNode' = NoSource /\ status' = status

C15_PauseRecordsOffset ==
    /\ [](isPlaying => sourceNode # NoSource)
    /\ [](isPlaying => startTime = sourceNode[1].startedAt - sourceNode[1].offset)
    /\ [][pauses =>
            /\ ~isPlaying'
            /\ pauseTime' = sourceNode[1].offset + (clock - sourceNode[1].startedAt)
            /\ \A s \in sources' : ~isLive(s)]_vars

\* paused 0.3 s after a play from 0.2 s that began at 0.3 s of the clock:
\* the offset is 0.5 s and the ended event of the stopped source is to come
C15_Witness ==
    /\ ~isPlaying
    /\ sourceNode = NoSource
    /\ clock = 6
    /\ startTime = 1
    /\ pauseTime = 5
    /\ \E s \in sources : s.state = "stopped" /\ s.stoppedBy = "togglePlayback"

-----------------------------------------------------------------------------
(* C16: a seek to x while playing stops the current source, starts a new   *)
(* one at offset x and leaves the player playing, with the reconstructed   *)
(* position (clock - anchor) equal to x and x reported right after it.     *)
C16_SeekWhilePlaying ==
    [][\A x \in SeekTargets :
          isPlaying /\ handleSeek(x) =>
              /\ isPlaying'
              /\ elapsed(clock', startTime') = x
              /\ currentTime' = x
              /\ sourceNode' = <<[startedAt |-> clock, offset |-> x]>>
              /\ \E s \in sources' :
                    /\ s.node = sourceNode'[1]
                    /\ s.state = IF x < duration THEN "playing" ELSE "ended"
              /\ Cardinality({s \in sources' : isLive(s)}) <= 1
              /\ liveSources # {} =>
                    \E s \in sources' : s.state = "stopped" /\ s.stoppedBy = "playFrom"]_vars

\* 0.2 s into a play from the start the scrubber was moved to 1 s: the new
\* source plays from there and the ended event of the old one is to come
C16_Witness ==
    /\ isPlaying
    /\ clock = 2
    /\ startTime = 2 - SeekStep
    /\ currentTime = SeekStep
    /\ \E s \in sources : isLive(s) /\ s.node = [startedAt |-> 2, offset |-> SeekStep]
    /\ \E s \in sources : s.state = "stopped" /\ s.stoppedBy = "playFrom"

-----------------------------------------------------------------------------
(* C17: a seek to x while not playing only sets the reported position and  *)
(* the paused offset to x: no source is created or stopped, the playing    *)
(* flag stays false, the anchor and the progress loop are left alone; the  *)
(* play that follows starts its source at the paused offset.               *)
C17_SeekWhilePaused ==
    /\ [][\A x \in SeekTargets :
            ~isPlaying /\ handleSeek(x) =>
                /\ currentTime' = x
                /\ pauseTime' = x
                /\ UNCHANGED <<sources, sourceNode, isPlaying, startTime, frame>>]_vars
    /\ [][~isPlaying /\ isPlaying' =>
            /\ sourceNode' = <<[startedAt |-> clock, offset |-> pauseTime]>>
            /\ \E s \in sources' : s.node = sourceNode'[1]]_vars

\* paused 0.2 s into a play from the start, then the scrubber was moved to
\* 1 s: the position and the paused offset are 1 s, the anchor is as it was
C17_Witness ==
    /\ ~isPlaying
    /\ sourceNode = NoSource
    /\ clock = 2
    /\ startTime = 0
    /\ pauseTime = SeekStep
    /\ currentTime = SeekStep
    /\ ~frame

-----------------------------------------------------------------------------
(* C18: whenever the player is not playing (paused, completed, or a run    *)
(* just started) no frame of the progress loop is scheduled, and the loop  *)
(* publishes no position.                                                  *)
C18_NoPollingUnlessPlaying ==
    /\ [](~isPlaying => ~frame)
    /\ [][renderLoop => isPlaying]_vars

\* paused after the loop had published 0.1 s: the frame it had asked for is
\* cancelled
C18_Witness ==
    /\ ~isPlaying
    /\ ~frame
    /\ sourceNode = NoSource
    /\ startTime = 1
    /\ currentTime = 1
    /\ pauseTime = 2

-----------------------------------------------------------------------------
(* C19: while the player is playing the progress loop is active: a frame   *)
(* is scheduled, each frame publishes the reconstructed position clamped   *)
(* to the duration and asks for the next one, after a seek or a restart as *)
(* before it and whatever the anchor is, zero included.                    *)
C19_LoopActiveWhilePlaying ==
    /\ [](isPlaying => frame)
    /\ [][isPlaying /\ renderLoop =>
            /\ frame'
            /\ currentTime' = MathMin(elapsed(clock, startTime), duration)]_vars

-----------------------------------------------------------------------------
(* C20: a run that starts (topic not blank) retires playback before the    *)
(* script call is issued: the held source is stopped and dereferenced and  *)
(* the playing flag cleared, so that no source is playing when withRetry   *)
(* makes its first attempt.                                                *)
runStarts == status # "WRITING_SCRIPT" /\ status' = "WRITING_SCRIPT"

firstAttemptDue == op.kind = "script" /\ op.attempt = 1 /\ op.pc = "attempt"

C20_RunRetiresPlayback ==
    /\ [][runStarts =>
            /\ ~isPlaying'
            /\ sourceNode' = NoSource
            /\ \A s \in sources' : ~isLive(s)
            /\ firstAttemptDue']_vars
    /\ [](firstAttemptDue =>
            /\ ~isPlaying
            /\ sourceNode = NoSource
            /\ liveSources = {})

\* a run started while a source was playing: the source is stopped and the
\* first attempt is about to be made
C20_Witness ==
    /\ firstAttemptDue
    /\ status = "WRITING_SCRIPT"
    /\ audioBuffer # NULL
    /\ \E s \in sources : s.state = "stopped" /\ s.stoppedBy = "handleGenerate"

-----------------------------------------------------------------------------
(***************************************************************************)
(* C21  Overlapping runs.  handleGenerate keeps no run counter: what keeps *)
(* an earlier run from writing into a later one is that the generate       *)
(* button is disabled from WRITING_SCRIPT until the run has ended, so a    *)
(* run starts only when no operation of an earlier run is outstanding, and *)
(* a provider call that an earlier run abandoned and that resolves during  *)
(* a later run changes neither the status, the error, the script, the      *)
(* buffer nor the later run's operation and attempts.                      *)
(***************************************************************************)
abandonedResolves == \E e \in inflight : e.id = StaleId /\ e \notin inflight'

C21_EarlierRunIgnored ==
    /\ [][runStarts => op.pc = "idle"]_vars
    /\ [][abandonedResolves /\ status \in {"WRITING_SCRIPT", "GENERATING_AUDIO"}
            => UNCHANGED <<status, error, generatedScript, audioBuffer, op, log>>]_vars

\* A call abandoned by an earlier run is still in flight while the first
\* attempt of the next run is awaited.
C21_Witness ==
    /\ status = "WRITING_SCRIPT"
    /\ op.kind = "script" /\ op.attempt = 1 /\ op.pc = "await"
    /\ staleInFlight("call")

-----------------------------------------------------------------------------
(***************************************************************************)
(* C22  The decoded buffer of the previous run is discarded when a run     *)
(* starts: from WRITING_SCRIPT until the run completes there is no buffer  *)
(* to play, seek or export (those controls are enabled exactly when        *)
(* audioBuffer is set) and no source is rendering one.                     *)
(***************************************************************************)
C22_BufferDiscardedAtRunStart ==
    status \in {"WRITING_SCRIPT", "GENERATING_AUDIO"}
        => audioBuffer = NULL /\ liveSources = {}

-----------------------------------------------------------------------------
(* Reading the request of the current run *)

running == op.kind # "none"

names(speakers) == {speakers[i].name : i \in 1..Len(speakers)}

(***************************************************************************)
(* C23  The speaker names of every request handed to a generation run are  *)
(* pairwise distinct, whatever renames and speaker-count changes came      *)
(* before the run.                                                         *)
(***************************************************************************)
C23_SpeakerNamesDistinct ==
    running => Cardinality(names(op.config.speakers)) = Len(op.config.speakers)

(***************************************************************************)
(* C24  The configuration, the request handed to a run and the speech      *)
(* request sent for it always have at least one speaker.                   *)
(***************************************************************************)
C24_AtLeastOneSpeaker ==
    /\ Len(config.speakers) >= 1
    /\ config.speakerCount = Len(config.speakers)
    /\ running => Len(op.config.speakers) >= 1

\* A run was started after the switch to one speaker, and its speech
\* request has been sent.
C24_Witness ==
    /\ op.kind = "audio"
    /\ op.request # <<>>
    /\ Len(op.config.speakers) = 1
    /\ Len(config.speakers) = 2

-----------------------------------------------------------------------------
(***************************************************************************)
(* C25  The request of a run is immutable: the run takes the configuration *)
(* current when it starts, keeps it for the script call, the audio call    *)
(* and every retry, and each request it sends is built from that           *)
(* configuration (and, for the audio call, from the script of the run),    *)
(* whatever is edited in the panel meanwhile.                              *)
(***************************************************************************)
C25_RequestImmutable ==
    /\ [][runStarts => op'.config = config]_vars
    /\ [][running /\ op'.kind # "none" => op'.config = op.config]_vars
    /\ [][op'.request # <<>> =>
            op'.request[1] = IF op'.kind = "audio"
                             THEN speechRequest(generatedScript', op'.config)
                             ELSE scriptRequest(op'.config)]_vars

\* The speech request is sent again on a retry, after the topic, the script
\* model, the temperature and a speaker of the panel have all been edited.
C25_Witness ==
    /\ status = "GENERATING_AUDIO"
    /\ op.attempt = 2 /\ op.pc = "await"
    /\ config.topic # op.config.topic
    /\ config.scriptModel # op.config.scriptModel
    /\ config.temperature # op.config.temperature
    /\ config.speakers[1] # op.config.speakers[1]
    /\ Len(config.speakers) # Len(op.config.speakers)

-----------------------------------------------------------------------------
(***************************************************************************)
(* C30  The speech request of a run with exactly one speaker carries a     *)
(* single-voice configuration with that speaker's voice; with more than    *)
(* one speaker it carries a multi-speaker configuration and nothing else:  *)
(* one entry per speaker, in the speakers' order, whose routing key is the *)
(* speaker's display name as it stands and whose voice is the speaker's    *)
(* voice.                                                                  *)
(***************************************************************************)
voiceOf(entry) == entry.voiceConfig.prebuiltVoiceConfig.voiceName

C30_SpeechConfigShape ==
    op.kind = "audio" /\ op.request # <<>> =>
        LET sent == op.request[1].config.speechConfig
            speakers == op.config.speakers
        IN  IF Len(speakers) = 1
            THEN /\ DOMAIN sent = {"voiceConfig"}
                 /\ voiceOf(sent) = speakers[1].voiceName
            ELSE /\ DOMAIN sent = {"multiSpeakerVoiceConfig"}
                 /\ LET entries == sent.multiSpeakerVoiceConfig.speakerVoiceConfigs
                    IN  /\ Len(entries) = Len(speakers)
                        /\ \A i \in 1..Len(speakers) :
                            /\ DOMAIN entries[i] = {"speaker", "voiceConfig"}
                            /\ entries[i].speaker = speakers[i].name
                            /\ voiceOf(entries[i]) = speakers[i].voiceName

\* The speech request of a two-speaker run has been sent, the speakers
\* having been renamed and given each other's voice.
C30_Witness ==
    /\ op.kind = "audio" /\ op.request # <<>>
    /\ Len(op.config.speakers) = 2
    /\ op.config.speakers[1].name = "Beta" /\ op.config.speakers[1].voiceName = "Aoede"
    /\ op.config.speakers[2].name = "Alpha" /\ op.config.speakers[2].voiceName = "Leda"

-----------------------------------------------------------------------------
(***************************************************************************)
(* C26  A payload that the speech provider returned and that does not      *)
(* decode ends the run: the run goes to ERROR with a message, no provider  *)
(* call is issued or left to be issued for it, nothing is retried, and the *)
(* buffer stored before the run is still the stored buffer.                *)
(***************************************************************************)
decodeFails ==
    /\ op.pc = "returned"
    /\ op.kind = "audio"
    /\ ~decode[op.result[1]].ok

C26_DecodeFailureFatal ==
    [][decodeFails =>
        /\ status' = "ERROR"
        /\ error' = DecodeError.message
        /\ audioBuffer' = audioBuffer
        /\ op' = IdleOp
        /\ log' = log /\ inflight' = inflight /\ delays' = delays]_vars

\* The second run of a session ended on a payload that did not decode; the
\* first run's buffer is still stored.
C26_Witness ==
    /\ status = "ERROR"
    /\ error = DecodeError.message
    /\ audioBuffer = AudioPayload
    /\ op = IdleOp
    /\ Len(log) >= 1 /\ log[Len(log)].backend = "tts" /\ succeeded(Len(log))

-----------------------------------------------------------------------------
(***************************************************************************)
(* C27  An export that fails changes the displayed error message and       *)
(* nothing else: the status, the script, the stored buffer, the playing    *)
(* flag, the anchor, the paused offset, the held source and the sources    *)
(* that are rendering are as they were.                                    *)
(***************************************************************************)
exportFails == error' = "Export protocol failed." /\ error' # error

C27_ExportFailureLocal ==
    [][exportFails =>
        UNCHANGED <<status, generatedScript, audioBuffer, isPlaying, startTime,
                    pauseTime, sourceNode, sources, duration, currentTime, frame>>]_vars

\* An export has failed during playback, which goes on.
C27_Witness ==
    /\ error = "Export protocol failed."
    /\ status = "COMPLETED"
    /\ isPlaying /\ liveSources # {} /\ clock > 0 /\ currentTime > 0

-----------------------------------------------------------------------------
(***************************************************************************)
(* C28  Pause followed by Resume, with no seek in between, resumes at the  *)
(* position of the pause: Pause records the reconstructed position p, the  *)
(* recorded offset stays p for as long as the player is paused and no seek *)
(* is made, and the step that starts playing again anchors the clock so    *)
(* that the reconstructed position is the recorded offset.                 *)
(***************************************************************************)
seeks == \E newTime \in SeekTargets : handleSeek(newTime)

C28_ResumeAtPausedPosition ==
    /\ [][pauses => pauseTime' = elapsed(clock, startTime)]_vars
    /\ [][~isPlaying /\ ~isPlaying' /\ ~seeks => pauseTime' = pauseTime]_vars
    /\ [][~isPlaying /\ isPlaying' => elapsed(clock', startTime') = pauseTime]_vars

-----------------------------------------------------------------------------
-----------------------------------------------------------------------------
(***************************************************************************)
(* C39  Pressing generate with a blank topic issues no provider call and   *)
(* changes the error message only: the status, the script, the stored      *)
(* buffer, the playing flag, the held source, the rendering sources, the   *)
(* anchor and the paused offset are left as they were.                     *)
(***************************************************************************)
onlySpaces(text) == \A i \in 1..Len(text) : charAt(text, i) = " "

blankRequested == handleGenerate /\ onlySpaces(config.topic)

C39_BlankTopicRejected ==
    [][blankRequested =>
        /\ error' = "Missing input vector: topic required."
        /\ UNCHANGED <<status, generatedScript, audioBuffer, isPlaying, sourceNode,
                       sources, startTime, pauseTime, currentTime, duration, frame,
                       op, inflight, log>>]_vars

\* Generate was pressed with a blank topic during playback of a completed
\* run, which goes on.
C39_Witness ==
    /\ error = "Missing input vector: topic required."
    /\ onlySpaces(config.topic)
    /\ status = "COMPLETED"
    /\ isPlaying /\ liveSources # {} /\ currentTime > 0
    /\ op = IdleOp

-----------------------------------------------------------------------------
(***************************************************************************)
(* C33  Whenever the playing flag is false no source is rendering the      *)
(* buffer to the output.                                                   *)
(***************************************************************************)
C33_SilentWhenNotPlaying == ~isPlaying => liveSources = {}

-----------------------------------------------------------------------------
(***************************************************************************)
(* C35  After Pause the paused offset keeps the value recorded at the      *)
(* pause until the next seek, play or buffer replacement; the ended event  *)
(* of the source that Pause stopped changes neither the paused offset nor  *)
(* the reported position.                                                  *)
(***************************************************************************)
bufferReplaced == status # "COMPLETED" /\ status' = "COMPLETED"

C35_PausedOffsetKept ==
    /\ [][\A s \in sources :
            endedEventOf(s) /\ s.state = "stopped" /\ s.stoppedBy = "togglePlayback" =>
                pauseTime' = pauseTime /\ currentTime' = currentTime]_vars
    /\ [][~isPlaying /\ ~isPlaying' /\ ~seeks /\ ~bufferReplaced =>
            pauseTime' = pauseTime]_vars

-----------------------------------------------------------------------------
(***************************************************************************)
(* C36  The paused offset is never negative and never beyond the duration  *)
(* of the stored buffer.                                                   *)
(***************************************************************************)
C36_PausedOffsetInBuffer == 0 <= pauseTime /\ pauseTime <= bufferDuration(audioBuffer)

-----------------------------------------------------------------------------
(***************************************************************************)
(* C34  A source that is rendering is bound to the stored buffer, and the  *)
(* duration the reported position is clamped to is the duration of the     *)
(* buffer it plays.                                                        *)
(***************************************************************************)
C34_LiveSourceOfCurrentBuffer ==
    \A s \in liveSources : s.buffer = audioBuffer /\ s.duration = duration

-----------------------------------------------------------------------------
(***************************************************************************)
(* C37  When a run reaches COMPLETED the player is at rest at the start of *)
(* the new buffer: the transport is not playing, no source is rendering,   *)
(* and the paused offset and the reported position are 0, so that the next *)
(* press of play starts from offset 0.                                     *)
(***************************************************************************)
C37_CompletedAtRest ==
    [][bufferReplaced =>
          /\ ~isPlaying'
          /\ liveSources' = {}
          /\ pauseTime' = 0
          /\ currentTime' = 0]_vars

-----------------------------------------------------------------------------
-----------------------------------------------------------------------------
(***************************************************************************)
(* C40  The speech-synthesis call is issued only after the script          *)
(* generation of the same run has returned a script that is not blank, and *)
(* it is given exactly that script: the audio operation is entered only    *)
(* from a script operation whose last attempt returned a text that is not  *)
(* empty or made of spaces, every speech request carries that text, and a  *)
(* script operation that threw is never followed by an audio operation.    *)
(***************************************************************************)
\* the text of the script operation's last attempt, NULL when it threw
returnedScript ==
    IF Len(log) > 0 /\ log[Len(log)].result # <<>> /\ log[Len(log)].result[1].ok
    THEN log[Len(log)].result[1].value
    ELSE NULL

audioEntered == op.kind # "audio" /\ op'.kind = "audio"

speechIssued == op.kind = "audio" /\ op.request = <<>> /\ op'.request # <<>>

C40_SpeechAfterScript ==
    /\ [][audioEntered =>
            /\ op.kind = "script"
            /\ op.pc = "returned"
            /\ returnedScript # NULL
            /\ returnedScript # ""
            /\ ~onlySpaces(returnedScript)
            /\ op'.script = returnedScript
            /\ generatedScript' = returnedScript]_vars
    /\ [][speechIssued =>
            /\ status = "GENERATING_AUDIO"
            /\ op'.request[1].contents[1].parts[1].text = op.script
            /\ op.script = generatedScript]_vars
    /\ [][op.kind = "script" /\ op.pc = "thrown" => op'.kind = "none"]_vars

C40_Witness ==
    /\ op.kind = "audio"
    /\ op.pc = "await"
    /\ op.request # <<>>
    /\ op.request[1].contents[1].parts[1].text = ScriptText
    /\ \E e \in inflight : e.kind = "call" /\ e.backend = "tts"

-----------------------------------------------------------------------------
-----------------------------------------------------------------------------
(***************************************************************************)
(* C32  Every run that enters WRITING_SCRIPT eventually reaches COMPLETED  *)
(* or ERROR, even when a provider call never resolves.  A run can only     *)
(* leave its in-progress statuses through the settlement of the attempt it *)
(* awaits, so in every reachable state a run that awaits an attempt has an *)
(* event of that attempt in flight that will settle: the call itself or    *)
(* the timer raced against it.                                             *)
(***************************************************************************)
C32_AwaitedAttemptSettles ==
    status \in {"WRITING_SCRIPT", "GENERATING_AUDIO"} /\ op.pc = "await"
        => \E e \in inflight : e.id = attemptId /\ ~e.hangs

-----------------------------------------------------------------------------
-----------------------------------------------------------------------------
(***************************************************************************)
(* C38  The displayed script and the stored buffer always come from the    *)
(* same generation run.  With the recording of the first run loaded and    *)
(* every later run returning another script and another recording, the     *)
(* script shown and the buffer stored are a pair that one run produced.    *)
(***************************************************************************)
producedByOneRun ==
    { <<ScriptText, AudioPayload>>, <<LaterScriptText, ShorterPayload>> }

C38_ScriptAndBufferOfOneRun ==
    audioBuffer # NULL => <<generatedScript, audioBuffer>> \in producedByOneRun

-----------------------------------------------------------------------------
-----------------------------------------------------------------------------
(***************************************************************************)
(* C31  For a decoded buffer of 1 or 2 channels and n >= 0 samples a       *)
(* channel, the exported byte stream has length exactly                    *)
(* 44 + n x channels x 2, and its header announces that length: the RIFF   *)
(* size field holds the length minus 8 and the data size field             *)
(* n x channels x 2.                                                       *)
(***************************************************************************)
exported == download # <<>>

\* the 32-bit little-endian field at a byte offset of the exported stream
fieldAt(offset) ==
    download[offset + 1] + 256 * download[offset + 2]
        + 65536 * download[offset + 3] + 16777216 * download[offset + 4]

C31_WavLength ==
    exported =>
        LET n == Len(audioBuffer.channelData[1])
            channels == audioBuffer.numberOfChannels
        IN  /\ Len(download) = 44 + n * channels * 2
            /\ fieldAt(4) = Len(download) - 8
            /\ fieldAt(40) = n * channels * 2

\* a stereo buffer of the largest length has been exported
C31_Witness ==
    /\ exported
    /\ audioBuffer.numberOfChannels = 2
    /\ Len(audioBuffer.channelData[1]) = MaxSamples
    /\ Len(download) = 44 + MaxSamples * 4

====
